---- MODULE Spec2Model ----
(***************************************************************************)
(* A model of forex_trello.py: ForexTrelloIntegration and main().          *)
(*                                                                         *)
(* Text is modelled as a sequence of atoms.  Text that comes from the      *)
(* calendar page is a sequence of one-character strings, so that strip(),  *)
(* lower() and the substring test work on characters.  A literal of the    *)
(* source that is only ever concatenated (a piece of an f-string, a table  *)
(* header) is one atom.                                                    *)
(***************************************************************************)
EXTENDS Naturals, Sequences, FiniteSets, TLC

VARIABLES
  pc,              \* the position of the single thread of control
  config,          \* self.config, as yaml.safe_load returned it
  calendar_rows,   \* soup.find_all('tr', class_='calendar_row')
  row_idx,         \* number of rows the for loop has consumed
  news_items,      \* the list get_high_impact_news builds
  current_date,    \* the running date of get_high_impact_news
  fetch_failed,    \* the except branch of get_high_impact_news ran
  main_news_items, \* main(): news_items, the value the fetch returned
  comment_text,    \* main(): comment_text, the value the formatter returned
  board,           \* the remote board: its lists and their cards
  trello_list,     \* update_trello_card: index of the selected list, 0 = None
  card,            \* update_trello_card: index of the selected card, 0 = None
  posts,           \* comments the board service has accepted
  netlog,          \* network calls attempted so far, in order
  calls            \* the methods main() has entered so far, in order

vars == <<pc, config, calendar_rows, row_idx, news_items, current_date,
          fetch_failed, main_news_items, comment_text, board, trello_list,
          card, posts, netlog, calls>>

-----------------------------------------------------------------------------
(* Bounds *)

MaxRows == 2     \* rows of a calendar page, get_high_impact_news alone
MaxLists == 2    \* lists of a board, update_trello_card alone
MaxCards == 2    \* cards of a list, update_trello_card alone
MainRows == 1    \* rows of a calendar page in a run of main()
MainLists == 1   \* lists of a board in a run of main()
MainCards == 1   \* cards of a list in a run of main()

-----------------------------------------------------------------------------
(* Python values and text *)

PyNone == [t |-> "None"]
PyStr(s) == [t |-> "str", v |-> s]

IsSpace(c) == c \in {" ", "\t", "\n"}

RECURSIVE LStrip(_)
LStrip(s) ==
  IF s # <<>> /\ IsSpace(Head(s)) THEN LStrip(Tail(s)) ELSE s

RECURSIVE RStrip(_)
RStrip(s) ==
  IF s # <<>> /\ IsSpace(s[Len(s)]) THEN RStrip(SubSeq(s, 1, Len(s) - 1)) ELSE s

\* str.strip()
Strip(s) == RStrip(LStrip(s))

LowerChar(c) ==
  CASE c = "H" -> "h"
    [] c = "I" -> "i"
    [] c = "G" -> "g"
    [] c = "L" -> "l"
    [] c = "O" -> "o"
    [] c = "W" -> "w"
    [] OTHER -> c

\* str.lower()
Lower(s) == [k \in 1..Len(s) |-> LowerChar(s[k])]

\* needle in hay
Contains(hay, needle) ==
  \E k \in 0..Len(hay) :
    /\ k + Len(needle) <= Len(hay)
    /\ SubSeq(hay, k + 1, k + Len(needle)) = needle

high == <<"h", "i", "g", "h">>
NA == <<"N", "/", "A">>

\* str(tag) of an impact cell: the tag's markup, attributes included
TagMarkup(cell) ==
  <<"<td class=\"impact\" title=\"">> \o cell.title \o <<"\">">>
    \o cell.text \o <<"</td>">>

\* str(x) inside an f-string
Str(x) == IF x.t = "None" THEN <<"N", "o", "n", "e">> ELSE x.v

-----------------------------------------------------------------------------
(* The calendar page: what row.find(...) gives for each row *)

ImpactCells ==
  { PyNone,
    [t |-> "tag", title |-> <<>>, text |-> <<"H", "i", "g", "h">>],
    [t |-> "tag", title |-> <<"H", "I", "G", "H">>, text |-> <<>>],
    [t |-> "tag", title |-> <<"L", "o", "w">>, text |-> <<"L", "o", "w">>] }

Tag(s) == [t |-> "tag", text |-> s]

DateCells ==
  { PyNone, Tag(<<" ">>), Tag(<<"M", "o", "n">>), Tag(<<" ", "T", "u", "e">>) }

\* time, currency, event, forecast, previous cells of a row
ValueCells ==
  { [time |-> Tag(<<"8", "a", "m">>), currency |-> Tag(<<"U", "S", "D">>),
     event |-> Tag(<<"N", "F", "P">>), forecast |-> Tag(<<"2", "%">>),
     previous |-> Tag(<<"1", "%">>)],
    [time |-> Tag(<<" ", "9", "a", "m", "\n">>), currency |-> Tag(<<"E", "U", "R">>),
     event |-> Tag(<<"C", "P", "I">>), forecast |-> PyNone,
     previous |-> Tag(<<>>)],
    [time |-> PyNone, currency |-> PyNone, event |-> PyNone,
     forecast |-> PyNone, previous |-> PyNone] }

Rows ==
  { [impact |-> im, date |-> d, time |-> c.time, currency |-> c.currency,
     event |-> c.event, forecast |-> c.forecast, previous |-> c.previous] :
      im \in ImpactCells, d \in DateCells, c \in ValueCells }

\* a run of main() sees pages made of these rows
MainRowSet ==
  { r \in Rows :
      /\ r.impact # PyNone /\ r.impact.title \in {<<>>, <<"L", "o", "w">>}
      /\ r.date \in {PyNone, Tag(<<"M", "o", "n">>)}
      /\ r.time # PyNone /\ r.forecast = PyNone }

SeqsUpTo(S, n) == UNION { [1..m -> S] : m \in 0..n }

-----------------------------------------------------------------------------
(* Configuration *)

ConfigKeys ==
  { "forex_factory.base_url", "forex_factory.user_agent",
    "trello.board_id", "trello.list_name", "trello.card_name" }

\* what yaml.safe_load can return: None for an empty document, a scalar or a
\* list, or a mapping that holds some of the keys
Documents ==
  { [kind |-> "null", keys |-> {}], [kind |-> "scalar", keys |-> {}] }
    \cup { [kind |-> "map", keys |-> ks] : ks \in SUBSET ConfigKeys }

Unset == [kind |-> "unset", keys |-> {}]
FullConfig == [kind |-> "map", keys |-> ConfigKeys]

\* self.config[section][key] does not raise
HasKey(cfg, key) == cfg.kind = "map" /\ key \in cfg.keys

\* the values of trello.list_name and trello.card_name
ListName == "FX"
CardName == "News"

-----------------------------------------------------------------------------
(* get_high_impact_news *)

\* a variant of Qualifies that reads impact.text instead of str(impact)
Qualifies_TextOnly(row) ==
  /\ row.impact # PyNone
  /\ Contains(Lower(row.impact.text), high)

\* line 50: impact and 'high' in str(impact).lower()
Qualifies(row) ==
  /\ row.impact # PyNone
  /\ Contains(Lower(TagMarkup(row.impact)), high)

\* lines 51-53
NextDate(row, cur) ==
  IF row.date # PyNone /\ Strip(row.date.text) # <<>>
    THEN PyStr(Strip(row.date.text))
    ELSE cur

\* lines 63-67: x.text.strip() if x else 'N/A'
CellText(cell) == IF cell # PyNone THEN PyStr(Strip(cell.text)) ELSE PyStr(NA)

\* lines 61-68
Event(row, date) ==
  [date |-> date, time |-> CellText(row.time), currency |-> CellText(row.currency),
   event |-> CellText(row.event), forecast |-> CellText(row.forecast),
   previous |-> CellText(row.previous)]

\* a variant of LoopBody that inserts the event at the front of the list
LoopBody_Prepend(row, items, cur) ==
  IF Qualifies(row)
    THEN <<(<<Event(row, NextDate(row, cur))>> \o items), NextDate(row, cur)>>
    ELSE <<items, cur>>

\* lines 49-68, the body of the for loop: the new <<news_items, current_date>>
LoopBody(row, items, cur) ==
  IF Qualifies(row)
    THEN <<Append(items, Event(row, NextDate(row, cur))), NextDate(row, cur)>>
    ELSE <<items, cur>>

\* a variant of ExceptReturn that returns the list built so far
ExceptReturn_Partial(items) == items

\* line 74
ExceptReturn(items) == <<>>

\* lines 32-34: the headers dict is built before the try block
FetchEnter ==
  /\ pc = "fetch"
  /\ calls' = Append(calls, "fetch")
  /\ pc' = IF HasKey(config, "forex_factory.user_agent") THEN "request" ELSE "crashed"
  /\ UNCHANGED <<config, calendar_rows, row_idx, news_items, current_date,
                 fetch_failed, main_news_items, comment_text, board, trello_list,
                 card, posts, netlog>>

\* lines 36-46 and 72-74: the page request and what it answers
Request(Pages) ==
  /\ pc = "request"
  /\ IF ~HasKey(config, "forex_factory.base_url")
       THEN /\ fetch_failed' = TRUE
            /\ main_news_items' = ExceptReturn(news_items)
            /\ pc' = "format"
            /\ UNCHANGED <<calendar_rows, row_idx, news_items, current_date, netlog>>
       ELSE /\ netlog' = Append(netlog, "GET")
            /\ \E answer \in {"network_error", "http_error", "ok"} :
                 IF answer # "ok"
                   THEN /\ fetch_failed' = TRUE
                        /\ main_news_items' = ExceptReturn(news_items)
                        /\ pc' = "format"
                        /\ UNCHANGED <<calendar_rows, row_idx, news_items, current_date>>
                   ELSE /\ \E page \in Pages : calendar_rows' = page
                        /\ news_items' = <<>>
                        /\ current_date' = PyNone
                        /\ row_idx' = 0
                        /\ pc' = "loop"
                        /\ UNCHANGED <<fetch_failed, main_news_items>>
  /\ UNCHANGED <<config, comment_text, board, trello_list, card, posts, calls>>

\* lines 48-68: one pass of the for loop
LoopRow ==
  /\ pc = "loop"
  /\ row_idx < Len(calendar_rows)
  /\ row_idx' = row_idx + 1
  /\ news_items' = LoopBody(calendar_rows[row_idx + 1], news_items, current_date)[1]
  /\ current_date' = LoopBody(calendar_rows[row_idx + 1], news_items, current_date)[2]
  /\ UNCHANGED <<pc, config, calendar_rows, fetch_failed, main_news_items,
                 comment_text, board, trello_list, card, posts, netlog, calls>>

\* lines 72-74: an exception raised while parsing, before or between rows
LoopRaise ==
  /\ pc = "loop"
  /\ fetch_failed' = TRUE
  /\ main_news_items' = ExceptReturn(news_items)
  /\ pc' = "format"
  /\ UNCHANGED <<config, calendar_rows, row_idx, news_items, current_date,
                 comment_text, board, trello_list, card, posts, netlog, calls>>

\* line 70
FetchReturn ==
  /\ pc = "loop"
  /\ row_idx = Len(calendar_rows)
  /\ main_news_items' = news_items
  /\ pc' = "format"
  /\ UNCHANGED <<config, calendar_rows, row_idx, news_items, current_date,
                 fetch_failed, comment_text, board, trello_list, card, posts,
                 netlog, calls>>

-----------------------------------------------------------------------------
(* format_news_comment *)

NoNews == <<"No high-impact news events found.">>

TableHead ==
  << "# High Impact Forex News Events\n\n",
     "| Date | Time | Currency | Event | Forecast | Previous |\n",
     "|------|------|----------|--------|----------|----------|\n" >>

\* datetime.now().strftime('%Y-%m-%d %H:%M:%S')
Timestamps == { "2024-01-05 08:30:00", "2024-01-05 08:30:01" }

\* lines 86-87
FormatRow(item) ==
  <<"| ">> \o Str(item.date) \o <<" | ">> \o Str(item.time) \o <<" | ">>
    \o Str(item.currency) \o <<" | ">> \o Str(item.event) \o <<" | ">>
    \o Str(item.forecast) \o <<" | ">> \o Str(item.previous) \o <<" |\n">>

\* lines 85-87
RECURSIVE FormatRows(_)
FormatRows(items) ==
  IF items = <<>> THEN <<>> ELSE FormatRow(Head(items)) \o FormatRows(Tail(items))

\* a variant of FormatComment without the empty-input branch
FormatComment_NoEmptyCheck(items, now) ==
  TableHead \o FormatRows(items) \o <<"\nLast updated: ", now>>

\* lines 78-90
FormatComment(items, now) ==
  IF items = <<>>
    THEN NoNews
    ELSE TableHead \o FormatRows(items) \o <<"\nLast updated: ", now>>

\* line 128
Format ==
  /\ pc = "format"
  /\ calls' = Append(calls, "format")
  /\ \E now \in Timestamps : comment_text' = FormatComment(main_news_items, now)
  /\ pc' = "update"
  /\ UNCHANGED <<config, calendar_rows, row_idx, news_items, current_date,
                 fetch_failed, main_news_items, board, trello_list, card, posts,
                 netlog>>

-----------------------------------------------------------------------------
(* update_trello_card *)

ListNames == { "FX", "fx" }
CardNames == { "News", "news" }

Boards(nl, nc) ==
  SeqsUpTo([name : ListNames, cards : SeqsUpTo(CardNames, nc)], nl)

\* a variant of FindFirst that keeps the loop variable when nothing matches
FindFirst_LoopVar(names, target) ==
  IF \E k \in 1..Len(names) : names[k] = target
    THEN CHOOSE k \in 1..Len(names) :
           /\ names[k] = target
           /\ \A j \in 1..(k - 1) : names[j] # target
    ELSE Len(names)

\* a variant of FindFirst without the break: the last match wins
FindFirst_Last(names, target) ==
  IF \E k \in 1..Len(names) : names[k] = target
    THEN CHOOSE k \in 1..Len(names) :
           /\ names[k] = target
           /\ \A j \in (k + 1)..Len(names) : names[j] # target
    ELSE 0

\* for x in xs: if x.name == target: ...; break  (0 when the loop ends unbroken)
FindFirst(names, target) ==
  IF \E k \in 1..Len(names) : names[k] = target
    THEN CHOOSE k \in 1..Len(names) :
           /\ names[k] = target
           /\ \A j \in 1..(k - 1) : names[j] # target
    ELSE 0

NameOf(xs) == [k \in 1..Len(xs) |-> xs[k].name]

\* line 96, and the except of lines 122-123
GetBoard(Remote) ==
  /\ pc = "update"
  /\ calls' = Append(calls, "update")
  /\ IF ~HasKey(config, "trello.board_id")
       THEN pc' = "done" /\ UNCHANGED <<board, netlog>>
       ELSE /\ netlog' = Append(netlog, "get_board")
            /\ \E ok \in BOOLEAN :
                 IF ok
                   THEN pc' = "list_lists" /\ \E b \in Remote : board' = b
                   ELSE pc' = "done" /\ UNCHANGED board
  /\ UNCHANGED <<config, calendar_rows, row_idx, news_items, current_date,
                 fetch_failed, main_news_items, comment_text, trello_list, card,
                 posts>>

\* lines 99-106, and the except of lines 122-123
ListLists ==
  /\ pc = "list_lists"
  /\ netlog' = Append(netlog, "list_lists")
  /\ \E ok \in BOOLEAN :
       IF ok /\ HasKey(config, "trello.list_name")
            /\ FindFirst(NameOf(board), ListName) # 0
         THEN /\ trello_list' = FindFirst(NameOf(board), ListName)
              /\ pc' = "list_cards"
         ELSE pc' = "done" /\ UNCHANGED trello_list
  /\ UNCHANGED <<config, calendar_rows, row_idx, news_items, current_date,
                 fetch_failed, main_news_items, comment_text, board, card, posts,
                 calls>>

\* lines 108-116, and the except of lines 122-123
ListCards ==
  /\ pc = "list_cards"
  /\ netlog' = Append(netlog, "list_cards")
  /\ \E ok \in BOOLEAN :
       IF ok /\ HasKey(config, "trello.card_name")
            /\ FindFirst(board[trello_list].cards, CardName) # 0
         THEN /\ card' = FindFirst(board[trello_list].cards, CardName)
              /\ pc' = "comment"
         ELSE pc' = "done" /\ UNCHANGED card
  /\ UNCHANGED <<config, calendar_rows, row_idx, news_items, current_date,
                 fetch_failed, main_news_items, comment_text, board, trello_list,
                 posts, calls>>

\* lines 118-120, and the except of lines 122-123: the service accepts the
\* comment, rejects it, or accepts it and the answer is lost
Comment ==
  /\ pc = "comment"
  /\ netlog' = Append(netlog, "comment")
  /\ \E answer \in {"ok", "rejected", "answer_lost"} :
       posts' = IF answer = "rejected"
                  THEN posts
                  ELSE Append(posts, [list |-> trello_list, card |-> card,
                                      text |-> comment_text])
  /\ pc' = "done"
  /\ UNCHANGED <<config, calendar_rows, row_idx, news_items, current_date,
                 fetch_failed, main_news_items, comment_text, board, trello_list,
                 card, calls>>

-----------------------------------------------------------------------------
(* __init__ and main *)

\* lines 12-28 and 126: open() or yaml.safe_load() raises, or the document
\* is stored as it is
LoadConfig ==
  /\ pc = "init"
  /\ \E outcome \in {"missing", "unparseable", "loaded"} :
       IF outcome = "loaded"
         THEN pc' = "fetch" /\ \E doc \in Documents : config' = doc
         ELSE pc' = "crashed" /\ UNCHANGED config
  /\ UNCHANGED <<calendar_rows, row_idx, news_items, current_date, fetch_failed,
                 main_news_items, comment_text, board, trello_list, card, posts,
                 netlog, calls>>

Start(at, cfgs, comments) ==
  /\ pc = at
  /\ config \in cfgs
  /\ calendar_rows = <<>>
  /\ row_idx = 0
  /\ news_items = <<>>
  /\ current_date = PyNone
  /\ fetch_failed = FALSE
  /\ main_news_items = <<>>
  /\ comment_text \in comments
  /\ board = <<>>
  /\ trello_list = 0
  /\ card = 0
  /\ posts = <<>>
  /\ netlog = <<>>
  /\ calls = <<>>

\* a run of main()
Init == Start("init", {Unset}, {<<>>})

Next ==
  \/ LoadConfig
  \/ FetchEnter
  \/ Request(SeqsUpTo(MainRowSet, MainRows))
  \/ LoopRow
  \/ LoopRaise
  \/ FetchReturn
  \/ Format
  \/ GetBoard(Boards(MainLists, MainCards))
  \/ ListLists
  \/ ListCards
  \/ Comment

Spec == Init /\ [][Next]_vars

\* get_high_impact_news and format_news_comment on any page, the
\* configuration complete
InitFetch == Start("fetch", {FullConfig}, {<<>>})

NextFetch ==
  \/ FetchEnter
  \/ Request(SeqsUpTo(Rows, MaxRows))
  \/ LoopRow
  \/ LoopRaise
  \/ FetchReturn
  \/ Format

SpecFetch == InitFetch /\ [][NextFetch]_vars

\* update_trello_card on any board and any configuration of the trello keys
UpdateConfigs ==
  { c \in Documents : c.kind = "map" /\ "forex_factory.base_url" \in c.keys
                        /\ "forex_factory.user_agent" \in c.keys }

UpdateComments ==
  { NoNews,
    FormatComment(<<Event([impact |-> PyNone, date |-> PyNone, time |-> PyNone,
                            currency |-> PyNone, event |-> PyNone,
                            forecast |-> PyNone, previous |-> PyNone], PyNone)>>,
                  "2024-01-05 08:30:00") }

InitUpdate == Start("update", UpdateConfigs, UpdateComments)

NextUpdate ==
  \/ GetBoard(Boards(MaxLists, MaxCards))
  \/ ListLists
  \/ ListCards
  \/ Comment

SpecUpdate == InitUpdate /\ [][NextUpdate]_vars

-----------------------------------------------------------------------------
(* Vocabulary of the properties *)

Max(S) == CHOOSE x \in S : \A y \in S : y <= x

\* the row's date cell holds text
HasDate(row) == row.date # PyNone /\ Strip(row.date.text) # <<>>

\* rows at or before row i whose date cell holds text
DatedUpTo(i) == { j \in 1..i : HasDate(calendar_rows[j]) }

\* the indices, in document order, of the consumed rows that passed the filter
QualIdx ==
  SelectSeq([i \in 1..row_idx |-> i], LAMBDA i : Qualifies(calendar_rows[i]))

\* the text of the impact marker contains "high", whatever its case
TextHasHigh(row) ==
  row.impact # PyNone /\ Contains(Lower(row.impact.text), high)

\* the text or an attribute value of the impact marker contains "high"
MarkupHasHigh(row) ==
  /\ row.impact # PyNone
  /\ \/ Contains(Lower(row.impact.text), high)
     \/ Contains(Lower(row.impact.title), high)

Fields == {"date", "time", "currency", "event", "forecast", "previous"}

AfterFetch == pc \in {"format", "update", "list_lists", "list_cards", "comment", "done"}
AfterFormat == pc \in {"update", "list_lists", "list_cards", "comment", "done"}

\* the cells of the table rows of a rendered comment, read back from its text
RECURSIVE ParseCells(_, _, _, _)
ParseCells(toks, rows, cells, cur) ==
  IF toks = <<>> THEN rows
  ELSE IF Head(toks) = "| " THEN ParseCells(Tail(toks), rows, <<>>, <<>>)
  ELSE IF Head(toks) = " | "
    THEN ParseCells(Tail(toks), rows, Append(cells, cur), <<>>)
  ELSE IF Head(toks) = " |\n"
    THEN ParseCells(Tail(toks), Append(rows, Append(cells, cur)), <<>>, <<>>)
  ELSE ParseCells(Tail(toks), rows, cells, Append(cur, Head(toks)))

TableRows(comment) ==
  ParseCells(SubSeq(comment, Len(TableHead) + 1, Len(comment) - 2), <<>>, <<>>, <<>>)

\* the least index of target in names, 0 when it does not occur
FirstIndex(names, target) ==
  IF target \in { names[k] : k \in 1..Len(names) }
    THEN Max({ k \in 1..Len(names) : \A j \in 1..k : j = k \/ names[j] # target }
               \cap { k \in 1..Len(names) : names[k] = target })
    ELSE 0

-----------------------------------------------------------------------------
(* Claims about get_high_impact_news, under SpecFetch *)

\* C1: every event carries as its date the text of the most recent row, at
\* or before its own row, that has a non-empty date cell, whether or not
\* that row is itself high-impact.
C1_DateCarryForward ==
  \A k \in 1..Len(news_items) :
    DatedUpTo(QualIdx[k]) # {} =>
      news_items[k].date =
        PyStr(Strip(calendar_rows[Max(DatedUpTo(QualIdx[k]))].date.text))

\* C4: each of the six fields of every emitted record is text, and it is
\* exactly "N/A" when the source has no value for it: the column is absent
\* from the row or, for the date, no row so far has had a date.
C4_Sentinel ==
  \A k \in 1..Len(news_items) :
    /\ DOMAIN news_items[k] = Fields
    /\ \A f \in Fields : news_items[k][f].t = "str"
    /\ \A f \in Fields \ {"date"} :
         calendar_rows[QualIdx[k]][f] = PyNone => news_items[k][f] = PyStr(NA)
    /\ DatedUpTo(QualIdx[k]) = {} => news_items[k].date = PyStr(NA)

\* C8: the events are exactly the qualifying rows in document order, and the
\* rendered table has one row per event in that order, its six cells in the
\* order Date, Time, Currency, Event, Forecast, Previous.
C8_OrderPreserved ==
  /\ pc = "loop" \/ (AfterFetch /\ ~fetch_failed) =>
       LET q == QualIdx IN
         /\ Len(news_items) = Len(q)
         /\ \A k \in 1..Len(news_items) :
              \A f \in Fields \ {"date"} :
                news_items[k][f] = CellText(calendar_rows[q[k]][f])
  /\ AfterFetch /\ ~fetch_failed => main_news_items = news_items
  /\ AfterFormat /\ main_news_items # <<>> =>
       /\ comment_text[2] = "| Date | Time | Currency | Event | Forecast | Previous |\n"
       /\ TableRows(comment_text) =
            [k \in 1..Len(main_news_items) |->
               << Str(main_news_items[k].date), Str(main_news_items[k].time),
                  Str(main_news_items[k].currency), Str(main_news_items[k].event),
                  Str(main_news_items[k].forecast), Str(main_news_items[k].previous) >>]

\* C8 witness: a page of two different qualifying rows has been fetched and
\* rendered.
C8_Witness ==
  /\ AfterFormat
  /\ Len(calendar_rows) >= 2
  /\ Len(main_news_items) = 2
  /\ main_news_items[1].currency # main_news_items[2].currency

\* C9 as stated: a row yields an event if and only if it has an impact
\* marker whose text contains "high", whatever its case.
C9_TextFilter ==
  Len(news_items) = Cardinality({ i \in 1..row_idx : TextHasHigh(calendar_rows[i]) })

\* C9 amended: a row yields an event if and only if it has an impact marker
\* whose text or attribute values contain "high", whatever its case.
C9_MarkupFilter ==
  Len(news_items) = Cardinality({ i \in 1..row_idx : MarkupHasHigh(calendar_rows[i]) })

\* C9 witness: a marker with "HIGH" in an attribute and none in its text has
\* yielded an event, and a marker without "high" has been skipped.
C9_Witness ==
  /\ row_idx = 2
  /\ Len(news_items) = 1
  /\ MarkupHasHigh(calendar_rows[1]) /\ ~TextHasHigh(calendar_rows[1])
  /\ calendar_rows[2].impact # PyNone /\ ~MarkupHasHigh(calendar_rows[2])

-----------------------------------------------------------------------------
(* Claims about update_trello_card, under SpecUpdate *)

\* C5: update_trello_card returns normally, and posts no comment when the
\* board was not retrieved, no list has the configured name, or no card of
\* the selected list has the configured name.
C5_NoPostOnFailure ==
  /\ pc \in {"update", "list_lists", "list_cards", "comment", "done"}
  /\ Len(netlog) = 4 => pc = "done"
  /\ posts # <<>> =>
       /\ "list_lists" \in { netlog[k] : k \in 1..Len(netlog) }
       /\ \E l \in 1..Len(board) : board[l].name = ListName
       /\ trello_list \in 1..Len(board)
       /\ \E c \in 1..Len(board[trello_list].cards) :
            board[trello_list].cards[c] = CardName

\* C5 witness: the call has returned without a post from a board that has
\* lists, none of the configured name.
C5_Witness ==
  /\ pc = "done"
  /\ posts = <<>>
  /\ Len(board) >= 2
  /\ \A l \in 1..Len(board) : board[l].name # ListName

\* C10: a comment is posted at most once, on the first card of the
\* configured name within the first list of the configured name; when that
\* list has no such card nothing is posted, whatever later lists hold.
C10_FirstMatch ==
  /\ Len(posts) <= 1
  /\ \A k \in 1..Len(posts) :
       /\ posts[k].list = FirstIndex(NameOf(board), ListName)
       /\ posts[k].list # 0
       /\ posts[k].card = FirstIndex(board[posts[k].list].cards, CardName)
       /\ posts[k].card # 0
       /\ posts[k].text = comment_text
  /\ FirstIndex(NameOf(board), ListName) # 0 =>
       (FirstIndex(board[FirstIndex(NameOf(board), ListName)].cards, CardName) = 0
          => posts = <<>>)

\* C10 witness: a comment has been posted on a board with two lists of the
\* configured name, the first holding two cards of the configured name.
C10_Witness ==
  /\ Len(posts) = 1
  /\ Len(board) = 2
  /\ board[1].name = ListName /\ board[2].name = ListName
  /\ board[1].cards = <<CardName, CardName>>

-----------------------------------------------------------------------------
(* Claims about a run of main(), under Spec *)

\* C2: when the configuration document is missing, unparseable or lacks a
\* required key, no network call is ever attempted and the run does not end
\* normally.
C2_FailFast ==
  config # FullConfig => netlog = <<>> /\ pc # "done"

\* C3: once the page request is reached, get_high_impact_news returns
\* normally whatever the request answers and whatever is raised while
\* parsing, and in every failure case what it returns is empty.
C3_FetchNeverPropagates ==
  /\ pc = "crashed" => netlog = <<>> /\ ~fetch_failed
  /\ fetch_failed => AfterFetch /\ main_news_items = <<>>

\* C3 witness: parsing raised after an event had been appended.
C3_Witness ==
  /\ pc = "format"
  /\ fetch_failed
  /\ news_items # <<>>

\* C6: when the fetch fails the formatter yields exactly the "no events"
\* string and the updater is entered with it, so that string is what gets
\* posted; and the formatter yields that string exactly when its input is
\* empty.
C6_FetchFailurePostsSentinel ==
  /\ AfterFormat => (comment_text = NoNews <=> main_news_items = <<>>)
  /\ fetch_failed /\ AfterFormat => comment_text = NoNews
  /\ fetch_failed /\ pc = "done" => calls = <<"fetch", "format", "update">>
  /\ fetch_failed => \A k \in 1..Len(posts) : posts[k].text = NoNews

\* C6 witness: the page request failed and the "no events" string was posted.
C6_Witness ==
  /\ fetch_failed
  /\ netlog # <<>> /\ netlog[1] = "GET"
  /\ calendar_rows = <<>>
  /\ Len(posts) = 1
  /\ posts[1].text = NoNews

\* C7: once the configuration has loaded, the run never ends abnormally, and
\* it ends after fetch, format and update, each entered once, in that order.
C7_NormalCompletion ==
  /\ config # Unset => pc # "crashed"
  /\ pc = "done" => calls = <<"fetch", "format", "update">>

====
